---- MODULE Spec2Model ----
(***************************************************************************)
(* The UWB dashboard, in three parts.                                      *)
(*                                                                         *)
(* The Quality-of-Data estimator (src/unnamed/part_000):                   *)
(* estimateScaleBiases, calculateAnchorQoD and calculateAllDeviceQoD, run  *)
(* by Spec over one snapshot of anchors, twice in a row.                   *)
(*                                                                         *)
(* The component GuardianConsole (src/app/page.tsx, src/unnamed/part_000): *)
(* its polling of the service and its WebSocket.  SpecConsole runs the     *)
(* first revision of page.tsx ("legacy") and its WebSocket revision;       *)
(* SpecPolling runs the revision of part_000, which only polls, across a   *)
(* recovery of the service; SpecSimulation runs the revision of page.tsx   *)
(* that animates sample data on a timer.  A device record is shown by its  *)
(* id.                                                                     *)
(*                                                                         *)
(* The relay route (src/unnamed/part_001): POST and GET over its two       *)
(* arrays, run by SpecRelay.                                               *)
(*                                                                         *)
(* Numbers.  A JavaScript number is modelled in fixed point:               *)
(*   - a distance is an integer count of 10-micrometre units, so the       *)
(*     ground truth 10.287 m is 1028700;                                   *)
(*   - every dimensionless quantity (k, bias, percent error, score) is an  *)
(*     integer count of 1/SCALE, so 1.0 is SCALE and the score 100 is      *)
(*     100 * SCALE.                                                        *)
(* A division rounds toward zero, where IEEE-754 rounds to nearest.  The   *)
(* inputs drawn below keep every k, percent error and score exact; only    *)
(* the mean of a sweep over 3 equations rounds, by less than 1/SCALE.      *)
(*                                                                         *)
(* Optional fields.  An optional number or list is a set with at most one  *)
(* element (None, Some(v)); an optional string is the string itself, with  *)
(* Undefined standing for a missing field, as a template literal prints    *)
(* it.                                                                     *)
(***************************************************************************)
EXTENDS Integers, Sequences, FiniteSets, TLC

\* ------------------------------------------------------------------------
\* Bounds of the model
\* ------------------------------------------------------------------------
MaxAnchors == 3
MaxConns == 3
\* requests of fetchData open at once
MaxInFlight == 2
\* records of the client contract list
MaxContracts == 2

\* ------------------------------------------------------------------------
\* Numbers and optional values
\* ------------------------------------------------------------------------
SCALE == 1000 * 1024

None == {}
Some(v) == {v}
Has(o) == o # {}
Get(o) == CHOOSE v \in o : TRUE

Undefined == "undefined"
TruthyStr(str) == str # "" /\ str # Undefined
\* a number is truthy when it is present and not 0
TruthyNum(o) == Has(o) /\ Get(o) # 0

Abs(x) == IF x < 0 THEN -x ELSE x
Max(a, b) == IF a >= b THEN a ELSE b
Min(a, b) == IF a <= b THEN a ELSE b

\* a / n for an integer count n > 0, rounded toward zero
DivInt(a, n) == IF a >= 0 THEN a \div n ELSE -((-a) \div n)

\* the fixed-point quotient a / b of two quantities of the same unit, b > 0:
\* trunc(a * SCALE / b), computed in two steps to stay within 32 bits
DivFix(a, b) ==
    LET m  == Abs(a)
        q1 == (m * 1000) \div b
        r1 == (m * 1000) % b
        q  == q1 * 1024 + (r1 * 1024) \div b
    IN  IF a >= 0 THEN q ELSE -q

\* c * x for a decimal constant c = tenths / 10
MulTenths(tenths, x) == DivInt(tenths * x, 10)

\* ------------------------------------------------------------------------
\* Ground truth (part_000 lines 67-79), in 10-micrometre units
\* ------------------------------------------------------------------------
\* a table whose Window-Kitchen entry was mistyped (10.278)
GROUND_TRUTH_DISTANCES_Typo ==
    ("Window-Kitchen" :> 1027800) @@ ("Kitchen-Window" :> 1028700) @@
    ("Window-Meeting Room" :> 558700) @@ ("Meeting Room-Window" :> 558700) @@
    ("Kitchen-Meeting Room" :> 618700) @@ ("Meeting Room-Kitchen" :> 618700)

GROUND_TRUTH_DISTANCES ==
    ("Window-Kitchen" :> 1028700) @@ ("Kitchen-Window" :> 1028700) @@
    ("Window-Meeting Room" :> 558700) @@ ("Meeting Room-Window" :> 558700) @@
    ("Kitchen-Meeting Room" :> 618700) @@ ("Meeting Room-Kitchen" :> 618700)
\* a table that lists C-D in one direction only
GROUND_TRUTH_DISTANCES_GridOneWay ==
    [key \in {"A-B", "B-A", "A-C", "C-A", "A-D", "D-A",
              "B-C", "C-B", "B-D", "D-B", "C-D"} |->
        IF key \in {"A-C", "C-A", "B-D", "D-B"} THEN 707000 ELSE 500000]

\* page.tsx lines 1691-1709: the table of the grid deployment A, B, C, D
GROUND_TRUTH_DISTANCES_Grid ==
    [key \in {"A-B", "B-A", "A-C", "C-A", "A-D", "D-A",
              "B-C", "C-B", "B-D", "D-B", "C-D", "D-C"} |->
        IF key \in {"A-C", "C-A", "B-D", "D-B"} THEN 707000 ELSE 500000]


\* GROUND_TRUTH_DISTANCES[key], None when the key is not in the table
lookupGroundTruth(key) ==
    IF key \in DOMAIN GROUND_TRUTH_DISTANCES
    THEN Some(GROUND_TRUTH_DISTANCES[key]) ELSE None

groundTruthKey(anchor, conn) == anchor.destination \o "-" \o conn.connectedTo

\* ------------------------------------------------------------------------
\* estimateScaleBiases (part_000 lines 102-174)
\* ------------------------------------------------------------------------
NumSweeps == 10

\* line 110: the anchor is skipped entirely
anchorSkipped(anchor) ==
    ~Has(anchor.anchorConnections) \/ ~TruthyStr(anchor.destination)

\* lines 114-119: the connection yields an equation
connQualifies(anchor, conn) ==
    /\ TruthyNum(conn.measuredDistance)
    /\ TruthyStr(conn.connectedTo)
    /\ TruthyNum(lookupGroundTruth(groundTruthKey(anchor, conn)))

\* a slip of precedence: (2 * measured - expected) / expected
edgeBiasNoParens(measured, expected) == DivFix(2 * measured - expected, expected)

\* line 121: k = 2 * (measured - expected) / expected
edgeBias(measured, expected) == DivFix(2 * (measured - expected), expected)

qualifyingConns(anchor) ==
    SelectSeq(Get(anchor.anchorConnections), LAMBDA c : connQualifies(anchor, c))

\* a builder that keeps one equation per target: a connection to an
\* identifier that an earlier qualifying connection of the anchor named adds
\* nothing
anchorEquationsDedup(anchor) ==
    LET q == qualifyingConns(anchor)
        first == SelectSeq([n \in 1..Len(q) |-> n],
                     LAMBDA n : \A m \in 1..(n - 1) :
                                    q[m].connectedToId # q[n].connectedToId)
    IN  [n \in 1..Len(first) |->
            [i |-> anchor.id,
             j |-> q[first[n]].connectedToId,
             k |-> edgeBias(Get(q[first[n]].measuredDistance),
                            GROUND_TRUTH_DISTANCES[groundTruthKey(anchor, q[first[n]])])]]

\* lines 113-130 for one anchor that is not skipped
anchorEquations(anchor) ==
    LET q == qualifyingConns(anchor)
    IN  [n \in 1..Len(q) |->
            [i |-> anchor.id,
             j |-> q[n].connectedToId,
             k |-> edgeBias(Get(q[n].measuredDistance),
                            GROUND_TRUTH_DISTANCES[groundTruthKey(anchor, q[n])])]]

\* the identifiers one anchor adds to anchorIds, in the order of the adds
anchorMentions(anchor) ==
    LET q == qualifyingConns(anchor)
    IN  <<anchor.id>> \o [n \in 1..Len(q) |-> q[n].connectedToId]

RECURSIVE buildEquations(_)
buildEquations(anchors) ==
    IF anchors = <<>> THEN <<>>
    ELSE (IF anchorSkipped(Head(anchors)) THEN <<>>
          ELSE anchorEquations(Head(anchors)))
         \o buildEquations(Tail(anchors))

RECURSIVE allMentions(_)
allMentions(anchors) ==
    IF anchors = <<>> THEN <<>>
    ELSE (IF anchorSkipped(Head(anchors)) THEN <<>>
          ELSE anchorMentions(Head(anchors)))
         \o allMentions(Tail(anchors))

Range(seq) == {seq[n] : n \in 1..Len(seq)}

\* a Set keeps the first insertion of every element, in insertion order
RECURSIVE insertionOrder(_, _)
insertionOrder(seq, seen) ==
    IF seq = <<>> THEN <<>>
    ELSE IF Head(seq) \in seen THEN insertionOrder(Tail(seq), seen)
    ELSE <<Head(seq)>> \o insertionOrder(Tail(seq), seen \cup {Head(seq)})

buildAnchorIds(anchors) == insertionOrder(allMentions(anchors), {})

\* the early return taken only when both counts are short
notEnoughEquationsBoth(eqs, ids) == Len(eqs) < 2 /\ Len(ids) < 2

\* line 134
notEnoughEquations(eqs, ids) == Len(eqs) < 2 \/ Len(ids) < 2

\* s.get(id) || 0
biasOf(s, id) == IF id \in DOMAIN s THEN s[id] ELSE 0

\* lines 151-164: sum and count over the equations touching id
RECURSIVE sumFor(_, _, _)
sumFor(eqs, id, s) ==
    IF eqs = <<>> THEN 0
    ELSE LET eq == Head(eqs)
         IN  (IF eq.i = id THEN eq.k - biasOf(s, eq.j)
              ELSE IF eq.j = id THEN eq.k - biasOf(s, eq.i)
              ELSE 0)
             + sumFor(Tail(eqs), id, s)

RECURSIVE countFor(_, _)
countFor(eqs, id) ==
    IF eqs = <<>> THEN 0
    ELSE (IF Head(eqs).i = id \/ Head(eqs).j = id THEN 1 ELSE 0)
         + countFor(Tail(eqs), id)

\* line 166
newBias(eqs, id, s) ==
    IF countFor(eqs, id) > 0
    THEN DivInt(sumFor(eqs, id, s), countFor(eqs, id))
    ELSE 0

EmptyMap == [x \in {} |-> 0]

\* lines 144: every identifier starts at 0
RECURSIVE zeroBiases(_)
zeroBiases(ids) ==
    IF ids = <<>> THEN EmptyMap
    ELSE (Head(ids) :> 0) @@ zeroBiases(Tail(ids))

\* lines 148-170: one sweep; newS is built from s alone, then copied into s
RECURSIVE sweepFrom(_, _, _)
sweepFrom(eqs, ids, s) ==
    IF ids = <<>> THEN EmptyMap
    ELSE (Head(ids) :> newBias(eqs, Head(ids), s)) @@ sweepFrom(eqs, Tail(ids), s)

\* a Gauss-Seidel sweep: every new bias is written into s at once, so the
\* identifiers visited later read it
RECURSIVE sweepInPlace(_, _, _)
sweepInPlace(eqs, ids, s) ==
    IF ids = <<>> THEN s
    ELSE sweepInPlace(eqs, Tail(ids),
                      (Head(ids) :> newBias(eqs, Head(ids), s)) @@ s)

sweep(eqs, ids, s) == sweepFrom(eqs, ids, s) @@ s

RECURSIVE sweeps(_, _, _, _)
sweeps(eqs, ids, s, n) ==
    IF n = 0 THEN s ELSE sweeps(eqs, ids, sweep(eqs, ids, s), n - 1)

estimateScaleBiases(anchors) ==
    LET eqs == buildEquations(anchors)
        ids == buildAnchorIds(anchors)
    IN  IF notEnoughEquations(eqs, ids) THEN EmptyMap
        ELSE sweeps(eqs, ids, zeroBiases(ids), NumSweeps)

\* ------------------------------------------------------------------------
\* calculateAnchorQoD (part_000 lines 177-243)
\* ------------------------------------------------------------------------
\* default of the parameter tau, 0.05 (line 180)
Tau == SCALE \div 20

HUNDRED == 100 * SCALE

\* the score without its Math.max(0, ...)
accuracyFromUnclamped(bias, tau) == 100 * (SCALE - DivFix(bias, tau))

\* lines 193 and 219: 100 * Math.max(0, 1 - bias / tau), bias >= 0
accuracyFrom(bias, tau) == 100 * Max(0, SCALE - DivFix(bias, tau))

\* lines 199-209: the absolute fractional errors of the qualifying connections
percentErrorsOf(anchor) ==
    LET q == qualifyingConns(anchor)
    IN  [n \in 1..Len(q) |->
            LET expected == GROUND_TRUTH_DISTANCES[groundTruthKey(anchor, q[n])]
            IN  Abs(DivFix(Get(q[n].measuredDistance) - expected, expected))]

\* line 213: percentErrors.sort((a, b) => a - b)
RECURSIVE insertSorted(_, _)
insertSorted(x, sorted) ==
    IF sorted = <<>> THEN <<x>>
    ELSE IF x <= Head(sorted) THEN <<x>> \o sorted
    ELSE <<Head(sorted)>> \o insertSorted(x, Tail(sorted))

\* the list left in the order of the connections
sortAscendingNoSort(seq) == seq

RECURSIVE sortAscending(_)
sortAscending(seq) ==
    IF seq = <<>> THEN <<>>
    ELSE insertSorted(Head(seq), sortAscending(Tail(seq)))

\* lines 214-216, on a sorted non-empty list (indices are 1-based here)
medianOf(sorted) ==
    LET len == Len(sorted)
    IN  IF len % 2 = 0
        THEN DivInt(sorted[len \div 2] + sorted[len \div 2 + 1], 2)
        ELSE sorted[len \div 2 + 1]

\* a status other than active scored 0 instead of 0.5
healthScoreOfIdleZero(anchor) ==
    LET battery      == IF TruthyNum(anchor.battery) THEN Get(anchor.battery) ELSE 0
        batteryScore == DivInt(battery * SCALE, 100)
        statusScore  == IF anchor.status = "active" THEN SCALE ELSE 0
    IN  100 * (MulTenths(8, batteryScore) + MulTenths(2, statusScore))

\* lines 224-226
healthScoreOf(anchor) ==
    LET battery      == IF TruthyNum(anchor.battery) THEN Get(anchor.battery) ELSE 0
        batteryScore == DivInt(battery * SCALE, 100)
        statusScore  == IF anchor.status = "active" THEN SCALE ELSE SCALE \div 2
    IN  100 * (MulTenths(8, batteryScore) + MulTenths(2, statusScore))

\* the blend without its Math.min(100, ...)
overallQoDNoUpperClamp(accuracyScore, healthScore) ==
    Max(0, MulTenths(8, accuracyScore) + MulTenths(2, healthScore))

\* line 229
overallQoD(accuracyScore, healthScore) ==
    Min(HUNDRED, Max(0, MulTenths(8, accuracyScore) + MulTenths(2, healthScore)))

\* an optimistic default: full marks until a measurement says otherwise
initialAccuracyScoreFull == HUNDRED

\* line 183: let accuracyScore = 0
initialAccuracyScore == 0

\* lines 183-243, given the map returned by the call of line 188
calculateAnchorQoDWith(anchor, biases, tau) ==
    LET useLeastSquares == anchor.id \in DOMAIN biases
        tryFallback ==
            /\ ~useLeastSquares
            /\ Has(anchor.anchorConnections)
            /\ Len(Get(anchor.anchorConnections)) > 0
            /\ TruthyStr(anchor.destination)
        percentErrors == IF tryFallback THEN percentErrorsOf(anchor) ELSE <<>>
        median == medianOf(sortAscending(percentErrors))
        scaleBias ==
            IF useLeastSquares THEN Some(biases[anchor.id])
            ELSE IF Len(percentErrors) > 0 THEN Some(median)
            ELSE None
        accuracyScore ==
            IF useLeastSquares THEN accuracyFrom(Abs(biases[anchor.id]), tau)
            ELSE IF Len(percentErrors) > 0 THEN accuracyFrom(median, tau)
            ELSE initialAccuracyScore
        healthScore == healthScoreOf(anchor)
    IN  [qod           |-> overallQoD(accuracyScore, healthScore),
         accuracyScore |-> accuracyScore,
         healthScore   |-> healthScore,
         scaleBias     |-> scaleBias,
         method        |-> IF useLeastSquares THEN "least-squares" ELSE "fallback"]

calculateAnchorQoD(anchor, allAnchors) ==
    calculateAnchorQoDWith(anchor, estimateScaleBiases(allAnchors), Tau)

\* a call of toFixed on a value: a TypeError when the value is undefined
toFixedRaises(o) == ~Has(o)

\* the log line written with a plain call, scaleBias.toFixed(4)
debugLogRaisesPlainCall(anchor, scaleBias) ==
    /\ TruthyStr(anchor.destination)
    /\ toFixedRaises(scaleBias)

\* lines 232-234: qod, accuracyScore and healthScore are numbers; the call
\* scaleBias?.toFixed(4) is made only when scaleBias is defined
debugLogRaises(anchor, scaleBias) ==
    /\ TruthyStr(anchor.destination)
    /\ Has(scaleBias)
    /\ toFixedRaises(scaleBias)

\* ------------------------------------------------------------------------
\* Input snapshots
\* ------------------------------------------------------------------------
AnchorIdNames == <<"a1", "a2", "a3", "a4", "a5">>
\* the destination an anchor is deployed at; "Lobby" has no ground truth
DestinationAt(n) ==
    IF n = 1 THEN "Window" ELSE IF n = 2 THEN "Kitchen"
    ELSE IF n = 3 THEN "Meeting Room" ELSE "Lobby"

\* the distance between two sites of the deployment, in 10-micrometre units
siteDistance(from, to) ==
    LET pair == {from, to}
    IN  IF pair = {"Window", "Kitchen"} THEN 1028700
        ELSE IF pair = {"Window", "Meeting Room"} THEN 558700
        ELSE IF pair = {"Kitchen", "Meeting Room"} THEN 618700
        ELSE 500000

\* a measurement of the pair from-to that is off by pct percent
measuredOff(from, to, pct) ==
    siteDistance(from, to) + (siteDistance(from, to) * pct) \div 100

mkConn(to, toId, measured) ==
    [connectedTo |-> to, connectedToId |-> toId, measuredDistance |-> measured]

mkAnchor(id, destination, battery, status, conns) ==
    [id |-> id, destination |-> destination, battery |-> battery,
     status |-> status, anchorConnections |-> conns]

\* Ring snapshots: n anchors, each reporting at most one connection, to the
\* next anchor of the ring.  A choice of conn is None (no anchorConnections
\* field), Some(None) (a connection without measuredDistance) or
\* Some(Some(pct)) (a measurement off by pct percent).
\* The ranging of device n is exact, off by n percent, or off by 8 percent.
RingErrors(n) == {0, n, 8}
RingChoices(n) ==
    [hasDestination : BOOLEAN,
     conn : {None, Some(None)} \cup {Some(Some(pct)) : pct \in RingErrors(n)}]

ringAnchor(n, size, choice) ==
    LET next == (n % size) + 1
        dest == IF choice.hasDestination THEN DestinationAt(n) ELSE Undefined
        conns ==
            IF choice.conn = None THEN None
            ELSE IF choice.conn = Some(None)
            THEN Some(<<mkConn(DestinationAt(next), AnchorIdNames[next], None)>>)
            ELSE Some(<<mkConn(DestinationAt(next), AnchorIdNames[next],
                               Some(measuredOff(DestinationAt(n), DestinationAt(next),
                                                Get(Get(choice.conn)))))>>)
    IN  mkAnchor(AnchorIdNames[n], dest, Some(80), "active", conns)

\* the lists of the first n anchors of a ring of the given size
RECURSIVE ringPrefixes(_, _)
ringPrefixes(n, size) ==
    IF n = 0 THEN {<<>>}
    ELSE {Append(prefix, ringAnchor(n, size, choice)) :
            prefix \in ringPrefixes(n - 1, size), choice \in RingChoices(n)}

RingSnapshots == UNION {ringPrefixes(size, size) : size \in 1..MaxAnchors}

\* Star snapshots: anchor a1 at Window reports up to MaxConns connections,
\* each off by 2 or 8 percent (to Kitchen) or by 5 percent (to Meeting Room)
\* and each naming any identifier (its own included); anchor a2 reports
\* nothing and has no destination.
StarErrors == {2, 5, 8}
starLabel(pct) == IF pct = 5 THEN "Meeting Room" ELSE "Kitchen"
StarConns ==
    {mkConn(starLabel(pct), toId, Some(measuredOff("Window", starLabel(pct), pct))) :
        toId \in {"a1", "a2"}, pct \in StarErrors}

StarSnapshots ==
    UNION {{<<mkAnchor("a1", "Window", Some(80), "active", Some(conns)),
              mkAnchor("a2", Undefined, Some(80), "idle", None)>> :
                conns \in [1..len -> StarConns]} : len \in 0..MaxConns}

\* Health snapshots: Window and Kitchen, only Window may report a connection,
\* to Kitchen; Window's battery and status vary.
Batteries == {None, Some(-100), Some(0), Some(50), Some(100), Some(150)}
Statuses == {"active", "idle", Undefined}
HealthErrors == {0, 2, 8}

HealthSnapshots ==
    {<<mkAnchor("a1", "Window", battery, status,
                IF pct = None THEN None
                ELSE Some(<<mkConn("Kitchen", "a2",
                                   Some(measuredOff("Window", "Kitchen", Get(pct))))>>)),
       mkAnchor("a2", "Kitchen", Some(100), "active", None)>> :
        battery \in Batteries, status \in Statuses,
        pct \in {None} \cup {Some(e) : e \in HealthErrors}}

\* Bystander snapshots: a1 at Window measured Kitchen twice; a3 at Meeting
\* Room reports a connection list in which nothing is a measurement of a
\* known pair (no connection, no measured distance, or an unknown site)
BystanderErrors == {2, 8}
BystanderConns ==
    {<<>>,
     <<mkConn("Kitchen", "a2", None)>>,
     <<mkConn("Lobby", "a4", Some(500000))>>}

BystanderSnapshots ==
    {<<mkAnchor("a1", "Window", Some(80), "active",
                Some(<<mkConn("Kitchen", "a2",
                              Some(measuredOff("Window", "Kitchen", pct))),
                       mkConn("Kitchen", "a2",
                              Some(measuredOff("Window", "Kitchen", 8)))>>)),
       mkAnchor("a2", Undefined, Some(80), "idle", None),
       mkAnchor("a3", "Meeting Room", Some(80), "active", Some(conns))>> :
        pct \in BystanderErrors, conns \in BystanderConns}

Snapshots ==
    RingSnapshots \cup StarSnapshots \cup HealthSnapshots \cup BystanderSnapshots

\* ------------------------------------------------------------------------
\* State: two calls of calculateAllDeviceQoD over one snapshot
\* ------------------------------------------------------------------------
VARIABLES
    allAnchors,   \* the anchor list of the snapshot
    pc,           \* "build", "sweep", "returned"
    equations,    \* estimateScaleBiases: equations
    anchorIds,    \* estimateScaleBiases: anchorIds, in insertion order
    s,            \* estimateScaleBiases: the map s
    iter,         \* estimateScaleBiases: sweeps done
    history,      \* the value of s after each sweep done so far
    biases,       \* the map estimateScaleBiases returned
    cursor,       \* calculateAllDeviceQoD: index of the next anchor
    qodResults,   \* calculateAllDeviceQoD: qodResults
    raised,       \* TRUE once a call has thrown
    call,         \* the call of calculateAllDeviceQoD under way: "first", "second"
    firstResults  \* the map the first call returned

qodVars == <<allAnchors, pc, equations, anchorIds, s, iter, history, biases,
             cursor, qodResults, raised, call, firstResults>>

\* State of the dashboard component GuardianConsole
VARIABLES
    revision,          \* the revision that runs: "legacy", "simulated",
                       \* "polling", "websocket"
    mounted,           \* the component is mounted
    timerOn,           \* the interval of setInterval is registered
    inflight,          \* the calls of fetchData awaiting a response, oldest first
    anchors,           \* useState: anchors, each device shown by its id
    navigators,        \* useState: navigators
    connectionStatus,  \* useState: connectionStatus
    contracts,         \* useState: contracts
    readyState,        \* websocket.readyState
    recovered,         \* the service answers every new request OK from now on
    lastEvent,         \* the last response or socket event a handler processed
    sinceNetworkError, \* a poll failed on the network and none succeeded since
    qodScores,         \* useState: qodScores, shown by the set of its keys
    robots             \* useState: robots

consoleVars == <<revision, mounted, timerOn, inflight, anchors, navigators,
                 connectionStatus, contracts, readyState, recovered, lastEvent,
                 sinceNetworkError, qodScores, robots>>

\* State of the relay route /api/navigator-update
VARIABLES
    navigatorUpdates,  \* the module-level array navigatorUpdates
    smartContracts,    \* the module-level array smartContracts
    response,          \* the response of the last request
    arrivals           \* how many entries each array has been given so far

relayVars == <<navigatorUpdates, smartContracts, response, arrivals>>

vars == <<qodVars, consoleVars, relayVars>>

\* the event record of a dashboard that has processed nothing yet
NoEvent ==
    [source |-> "none", kind |-> "", anchors |-> None, navigators |-> None,
     count |-> None, contract |-> None, overtook |-> FALSE, fresh |-> FALSE,
     live |-> FALSE]

\* no dashboard is running
NoConsole ==
    /\ revision = "none"
    /\ mounted = FALSE
    /\ timerOn = FALSE
    /\ inflight = <<>>
    /\ anchors = <<>>
    /\ navigators = <<>>
    /\ connectionStatus = "disconnected"
    /\ contracts = <<>>
    /\ readyState = "NONE"
    /\ recovered = FALSE
    /\ lastEvent = NoEvent
    /\ sinceNetworkError = FALSE
    /\ qodScores = {}
    /\ robots = <<>>

\* the response variable before any request
NoResponse ==
    [op |-> "none", status |-> 0, success |-> None, message |-> "",
     updates |-> None, contracts |-> None, count |-> None]

\* part_001 lines 4-5: the relay module as loaded
NoRelay ==
    /\ navigatorUpdates = <<>>
    /\ smartContracts = <<>>
    /\ response = NoResponse
    /\ arrivals = [updates |-> 0, contracts |-> 0]

Init ==
    /\ allAnchors \in Snapshots
    /\ pc = "build"
    /\ equations = <<>>
    /\ anchorIds = <<>>
    /\ s = EmptyMap
    /\ iter = 0
    /\ history = <<>>
    /\ biases = EmptyMap
    /\ cursor = 1
    /\ qodResults = EmptyMap
    /\ raised = FALSE
    /\ call = "first"
    /\ firstResults = EmptyMap
    /\ NoConsole
    /\ NoRelay

\* a solver whose map s outlives the call: a later call starts its sweeps
\* from the values the previous one ended with
BuildSystemWarmStart ==
    /\ pc = "build"
    /\ equations' = buildEquations(allAnchors)
    /\ anchorIds' = buildAnchorIds(allAnchors)
    /\ biases' = EmptyMap
    /\ iter' = 0
    /\ history' = <<>>
    /\ IF notEnoughEquations(equations', anchorIds')
       THEN /\ pc' = "returned"
            /\ s' = EmptyMap
       ELSE /\ pc' = "sweep"
            /\ s' = IF DOMAIN s = DOMAIN zeroBiases(anchorIds')
                    THEN s ELSE zeroBiases(anchorIds')
    /\ UNCHANGED <<allAnchors, cursor, qodResults, raised, call, firstResults>>
    /\ UNCHANGED <<consoleVars, relayVars>>

\* part_000 lines 103-144: every local of the call starts afresh
BuildSystem ==
    /\ pc = "build"
    /\ equations' = buildEquations(allAnchors)
    /\ anchorIds' = buildAnchorIds(allAnchors)
    /\ biases' = EmptyMap
    /\ iter' = 0
    /\ history' = <<>>
    /\ IF notEnoughEquations(equations', anchorIds')
       THEN /\ pc' = "returned"
            /\ s' = EmptyMap
       ELSE /\ pc' = "sweep"
            /\ s' = zeroBiases(anchorIds')
    /\ UNCHANGED <<allAnchors, cursor, qodResults, raised, call, firstResults>>
    /\ UNCHANGED <<consoleVars, relayVars>>

\* part_000 lines 147-171, one iteration
Sweep ==
    /\ pc = "sweep"
    /\ iter < NumSweeps
    /\ s' = sweep(equations, anchorIds, s)
    /\ iter' = iter + 1
    /\ history' = Append(history, s')
    /\ UNCHANGED <<allAnchors, pc, equations, anchorIds, biases, cursor, qodResults,
                   raised, call, firstResults>>
    /\ UNCHANGED <<consoleVars, relayVars>>

\* part_000 line 173
ReturnBiases ==
    /\ pc = "sweep"
    /\ iter = NumSweeps
    /\ biases' = s
    /\ pc' = "returned"
    /\ UNCHANGED <<allAnchors, equations, anchorIds, s, iter, history, cursor,
                   qodResults, raised, call, firstResults>>
    /\ UNCHANGED <<consoleVars, relayVars>>

\* part_000 lines 287-290, one iteration: the call of line 288 scores the
\* anchor with the map the estimator returned for this list, and an exception
\* of the call leaves the loop
ScoreAnchor ==
    /\ pc = "returned"
    /\ ~raised
    /\ cursor <= Len(allAnchors)
    /\ LET result == calculateAnchorQoDWith(allAnchors[cursor], biases, Tau)
       IN  IF debugLogRaises(allAnchors[cursor], result.scaleBias)
           THEN /\ raised' = TRUE
                /\ UNCHANGED <<qodResults, cursor>>
           ELSE /\ qodResults' = (allAnchors[cursor].id :> result) @@ qodResults
                /\ cursor' = cursor + 1
                /\ raised' = raised
    /\ UNCHANGED <<allAnchors, pc, equations, anchorIds, s, iter, history, biases,
                   call, firstResults>>
    /\ UNCHANGED <<consoleVars, relayVars>>

\* the next poll delivers the same snapshot: calculateAllDeviceQoD is called
\* again on it (part_000 line 453), with a new qodResults (line 284)
CallAgain ==
    /\ pc = "returned"
    /\ ~raised
    /\ cursor > Len(allAnchors)
    /\ call = "first"
    /\ call' = "second"
    /\ firstResults' = qodResults
    /\ qodResults' = EmptyMap
    /\ cursor' = 1
    /\ pc' = "build"
    /\ UNCHANGED <<allAnchors, equations, anchorIds, s, iter, history, biases, raised>>
    /\ UNCHANGED <<consoleVars, relayVars>>

Next == BuildSystem \/ Sweep \/ ReturnBiases \/ ScoreAnchor \/ CallAgain

Spec == Init /\ [][Next]_vars

TypeOK ==
    /\ pc \in {"build", "sweep", "returned"}
    /\ iter \in 0..NumSweeps
    /\ cursor \in 1..(Len(allAnchors) + 1)
    /\ pc = "returned" => biases = estimateScaleBiases(allAnchors)
    /\ raised \in BOOLEAN
    /\ call \in {"first", "second"}

\* ------------------------------------------------------------------------
\* Vocabulary of the properties
\* ------------------------------------------------------------------------
\* the anchors calculateAllDeviceQoD has scored so far
Scored == {allAnchors[n] : n \in 1..(cursor - 1)}

\* the indices of the connections of an anchor that count as measurements:
\* the anchor has a destination, the connection a measured distance and a
\* label, and the pair is in the ground-truth table
QualifyingAt(a) ==
    IF ~Has(a.anchorConnections) \/ a.destination \in {"", Undefined} THEN {}
    ELSE {n \in 1..Len(Get(a.anchorConnections)) :
            LET c == Get(a.anchorConnections)[n]
            IN  /\ Has(c.measuredDistance)
                /\ Get(c.measuredDistance) # 0
                /\ c.connectedTo \notin {"", Undefined}
                /\ (a.destination \o "-" \o c.connectedTo) \in DOMAIN GROUND_TRUTH_DISTANCES}

connAt(a, n) == Get(a.anchorConnections)[n]
truthAt(a, n) == GROUND_TRUTH_DISTANCES[a.destination \o "-" \o connAt(a, n).connectedTo]

QualifyingCount(list) ==
    Cardinality(UNION {{<<m, n>> : n \in QualifyingAt(list[m])} :
                          m \in 1..Len(list)})

\* the identifiers the estimator collects: the anchors that report with a
\* destination, and the targets of the qualifying connections
CollectedIds(list) ==
    {list[m].id : m \in {m \in 1..Len(list) :
        Has(list[m].anchorConnections) /\ list[m].destination \notin {"", Undefined}}}
    \cup UNION {{connAt(list[m], n).connectedToId : n \in QualifyingAt(list[m])} :
                    m \in 1..Len(list)}

AllExact(list) ==
    \A m \in 1..Len(list) : \A n \in QualifyingAt(list[m]) :
        Get(connAt(list[m], n).measuredDistance) = truthAt(list[m], n)

AllZero(map) == \A id \in DOMAIN map : map[id] = 0

\* ------------------------------------------------------------------------
\* C1: when every qualifying measurement equals its ground truth, every bias
\* is 0 at the start and after each of the 10 sweeps, and every anchor that
\* is a key of the returned map is scored accuracyScore = 100.
\* ------------------------------------------------------------------------
C1_ExactMeasurementsStayZero ==
    AllExact(allAnchors) =>
        /\ AllZero(s)
        /\ \A n \in 1..Len(history) : AllZero(history[n])
        /\ AllZero(biases)
        /\ \A a \in Scored :
               a.id \in DOMAIN biases => qodResults[a.id].accuracyScore = HUNDRED

C1_Witness ==
    /\ AllExact(allAnchors)
    /\ QualifyingCount(allAnchors) >= 2
    /\ Len(history) = NumSweeps
    /\ \E a \in Scored : a.id \in DOMAIN biases
    /\ cursor > Len(allAnchors)

OneThousandth == SCALE \div 1000

IsTriangle(eqs) ==
    {<<{eqs[n].i, eqs[n].j}, eqs[n].k>> : n \in 1..Len(eqs)} =
        {<<{"a1", "a2"}, 2 * (SCALE \div 100)>>,
         <<{"a2", "a3"}, 4 * (SCALE \div 100)>>,
         <<{"a1", "a3"}, 6 * (SCALE \div 100)>>}

C3_TriangleFixedPoint ==
    (IsTriangle(equations) /\ pc = "sweep" /\ iter = NumSweeps) =>
        \A id \in DOMAIN s :
            Abs(sweep(equations, anchorIds, s)[id] - s[id]) <= OneThousandth

\* ------------------------------------------------------------------------
\* C4: an anchor whose destination is missing or empty is never a key of
\* the bias map and is never scored with method 'least-squares'.
\* ------------------------------------------------------------------------
C4_NoDestinationNeverLeastSquares ==
    \A m \in 1..Len(allAnchors) :
        allAnchors[m].destination \in {"", Undefined} =>
            /\ allAnchors[m].id \notin DOMAIN biases
            /\ allAnchors[m] \in Scored =>
                   qodResults[allAnchors[m].id].method # "least-squares"

\* ------------------------------------------------------------------------
\* C5: an anchor with no data (absent from the bias map, no qualifying
\* connection) and what its result says.
\* ------------------------------------------------------------------------
NoData(a) == a.id \notin DOMAIN biases /\ QualifyingAt(a) = {}

\* C5 as stated: the accuracy and the overall score of such an anchor are
\* absent rather than numeric.
C5_NoDataScoresAbsent ==
    \A a \in Scored :
        NoData(a) => /\ qodResults[a.id].accuracyScore \notin Int
                     /\ qodResults[a.id].qod \notin Int

\* C5 as amended: such an anchor gets the numeric accuracyScore 0, method
\* 'fallback' and the numeric qod clamp(0.2 * healthScore); only its
\* scaleBias is undefined, and scaleBias is undefined for no other anchor, so
\* it is scaleBias that tells 'no data' from a measured zero quality.
C5_NoDataOnlyBiasUndefined ==
    \A a \in Scored :
        LET r == qodResults[a.id]
        IN  /\ NoData(a) <=> r.scaleBias = None
            /\ NoData(a) =>
                   /\ r.accuracyScore = 0
                   /\ r.method = "fallback"
                   /\ r.qod = Min(HUNDRED, Max(0, (2 * r.healthScore) \div 10))

C5_Witness ==
    /\ cursor > Len(allAnchors)
    /\ \E a \in Scored : NoData(a) /\ qodResults[a.id].accuracyScore = 0
    /\ \E a \in Scored : /\ ~NoData(a)
                         /\ qodResults[a.id].accuracyScore = 0
                         /\ qodResults[a.id].scaleBias # None

\* ------------------------------------------------------------------------
\* C6: |bias| >= 0.05 gives accuracyScore exactly 0, and accuracyScore is
\* never negative and never above 100.
\* ------------------------------------------------------------------------
C6_AccuracyClamped ==
    \A a \in Scored :
        LET r == qodResults[a.id]
        IN  /\ r.accuracyScore >= 0
            /\ r.accuracyScore <= HUNDRED
            /\ (Has(r.scaleBias) /\ Abs(Get(r.scaleBias)) >= SCALE \div 20)
                   => r.accuracyScore = 0

C6_Witness ==
    \E a \in Scored :
        /\ qodResults[a.id].method = "least-squares"
        /\ Get(qodResults[a.id].scaleBias) < -(SCALE \div 20)
        /\ qodResults[a.id].accuracyScore = 0

\* ------------------------------------------------------------------------
\* C7: qod = clamp(0.8 * accuracyScore + 0.2 * healthScore, 0, 100), hence
\* within [0, 100] also for a battery outside 0..100.
\* ------------------------------------------------------------------------
Blend(r) == (8 * r.accuracyScore) \div 10 + DivInt(2 * r.healthScore, 10)

C7_OverallClamped ==
    \A a \in Scored :
        LET r == qodResults[a.id]
        IN  /\ r.qod >= 0
            /\ r.qod <= HUNDRED
            /\ Blend(r) < 0 => r.qod = 0
            /\ Blend(r) > HUNDRED => r.qod = HUNDRED
            /\ Blend(r) \in 0..HUNDRED => r.qod = Blend(r)

C7_Witness ==
    \E a \in Scored :
        /\ Has(a.battery) /\ Get(a.battery) > 100
        /\ Blend(qodResults[a.id]) > HUNDRED
        /\ qodResults[a.id].qod = HUNDRED

\* ------------------------------------------------------------------------
\* C8: healthScore = 100 * (0.8 * battery / 100 + 0.2 * (1.0 if active,
\* otherwise 0.5)), a missing battery counting as 0; battery 0 with status
\* idle gives exactly 10, and a battery within 0..100 gives a healthScore
\* within [10, 100].
\* ------------------------------------------------------------------------
BatteryOf(a) == IF Has(a.battery) THEN Get(a.battery) ELSE 0

C8_HealthScore ==
    \A a \in Scored :
        LET h == qodResults[a.id].healthScore
            b == BatteryOf(a)
        IN  /\ 10 * h = 8 * b * SCALE
                        + (IF a.status = "active" THEN 200 ELSE 100) * SCALE
            /\ (b = 0 /\ a.status = "idle") => h = 10 * SCALE
            /\ b \in 0..100 => (h >= 10 * SCALE /\ h <= HUNDRED)

C8_Witness ==
    \E a \in Scored :
        /\ a.battery = Some(0)
        /\ a.status = "idle"
        /\ qodResults[a.id].healthScore = 10 * SCALE

\* ------------------------------------------------------------------------
\* C9: an anchor absent from the bias map with at least one qualifying
\* connection gets method 'fallback', scaleBias = the median of the absolute
\* fractional errors of its qualifying connections (the middle one of the
\* sorted errors for an odd count, the mean of the two middle ones for an
\* even count) and accuracyScore = 100 * max(0, 1 - median / 0.05); the
\* errors 0.02, 0.08, 0.05 give the median 0.05 and accuracyScore 0.
\* ------------------------------------------------------------------------
\* the k-th smallest entry of a list, by counting
KthSmallest(errs, k) ==
    CHOOSE v \in Range(errs) :
        /\ Cardinality({n \in 1..Len(errs) : errs[n] < v}) < k
        /\ Cardinality({n \in 1..Len(errs) : errs[n] <= v}) >= k

MedianByRank(errs) ==
    IF Len(errs) % 2 = 1 THEN KthSmallest(errs, (Len(errs) + 1) \div 2)
    ELSE (KthSmallest(errs, Len(errs) \div 2)
          + KthSmallest(errs, Len(errs) \div 2 + 1)) \div 2

ErrorsOf(a) ==
    LET q == SelectSeq([n \in 1..Len(Get(a.anchorConnections)) |-> n],
                       LAMBDA n : n \in QualifyingAt(a))
    IN  [n \in 1..Len(q) |->
            Abs(DivFix(Get(connAt(a, q[n]).measuredDistance) - truthAt(a, q[n]),
                       truthAt(a, q[n])))]

UsesFallbackMedian(a) == a.id \notin DOMAIN biases /\ QualifyingAt(a) # {}

C9_FallbackMedian ==
    \A a \in Scored :
        UsesFallbackMedian(a) =>
            LET r == qodResults[a.id]
                median == MedianByRank(ErrorsOf(a))
            IN  /\ r.method = "fallback"
                /\ r.scaleBias = Some(median)
                /\ r.accuracyScore = 100 * Max(0, SCALE - 20 * median)
                /\ ErrorsOf(a) = <<2 * (SCALE \div 100), 8 * (SCALE \div 100),
                                   5 * (SCALE \div 100)>>
                       => /\ r.scaleBias = Some(5 * (SCALE \div 100))
                          /\ r.accuracyScore = 0

C9_Witness ==
    \E a \in Scored :
        /\ UsesFallbackMedian(a)
        /\ ErrorsOf(a) = <<2 * (SCALE \div 100), 8 * (SCALE \div 100),
                           5 * (SCALE \div 100)>>
        /\ qodResults[a.id].scaleBias = Some(5 * (SCALE \div 100))
        /\ qodResults[a.id].accuracyScore = 0

\* ------------------------------------------------------------------------
\* C10: two anchors at Window and Kitchen, only Window reporting, one
\* connection to Kitchen measured at 10.287 m: Window's accuracyScore is 100
\* and its qod is 0.8 * 100 + 0.2 * healthScore (battery within the 0..100
\* of the data model, or missing).
\* ------------------------------------------------------------------------
WindowKitchenSnapshot ==
    /\ Len(allAnchors) = 2
    /\ allAnchors[1].destination = "Window"
    /\ allAnchors[2].destination = "Kitchen"
    /\ allAnchors[1].anchorConnections =
           Some(<<mkConn("Kitchen", allAnchors[2].id, Some(1028700))>>)
    /\ ~Has(allAnchors[2].anchorConnections)
    /\ BatteryOf(allAnchors[1]) \in 0..100

C10_WindowKitchenExact ==
    (WindowKitchenSnapshot /\ allAnchors[1] \in Scored) =>
        LET r == qodResults[allAnchors[1].id]
        IN  /\ r.accuracyScore = HUNDRED
            /\ 10 * r.qod = 8 * HUNDRED + 2 * r.healthScore

C10_Witness ==
    /\ WindowKitchenSnapshot
    /\ allAnchors[1] \in Scored
    /\ allAnchors[1].battery = Some(50)
    /\ qodResults[allAnchors[1].id].accuracyScore = HUNDRED
    /\ qodResults[allAnchors[1].id].qod < HUNDRED

\* ------------------------------------------------------------------------
\* C11: an anchor without destination and without connections that no
\* connection of the list names is scored with accuracy 0, no scale bias and
\* method "fallback"; and whatever optional fields the records of the list
\* lack, no call raises: the estimator returns a map and every call of
\* calculateAnchorQoD returns a result.
\* ------------------------------------------------------------------------
NoConnections(a) ==
    ~Has(a.anchorConnections) \/ Get(a.anchorConnections) = <<>>

Unreferenced(a) ==
    \A m \in 1..Len(allAnchors) :
        Has(allAnchors[m].anchorConnections) =>
            \A n \in 1..Len(Get(allAnchors[m].anchorConnections)) :
                connAt(allAnchors[m], n).connectedToId # a.id

Isolated(a) ==
    /\ a.destination \in {"", Undefined}
    /\ NoConnections(a)
    /\ Unreferenced(a)

C11_IsolatedAnchorAndNoRaise ==
    /\ ~raised
    /\ pc = "returned" => DOMAIN biases \subseteq CollectedIds(allAnchors)
    /\ (pc = "returned" /\ cursor > Len(allAnchors)) =>
            DOMAIN qodResults = {allAnchors[m].id : m \in 1..Len(allAnchors)}
    /\ \A a \in Scored :
            Isolated(a) =>
                /\ qodResults[a.id].accuracyScore = 0
                /\ qodResults[a.id].scaleBias = None
                /\ qodResults[a.id].method = "fallback"

\* every anchor is scored, one of them isolated, and another one, with a
\* destination, has no scale bias to log
C11_Witness ==
    /\ pc = "returned"
    /\ cursor > Len(allAnchors)
    /\ \E a \in Scored : Isolated(a)
    /\ \E b \in Scored :
            /\ b.destination \notin {"", Undefined}
            /\ ~Has(b.anchorConnections)
            /\ qodResults[b.id].scaleBias = None

\* ------------------------------------------------------------------------
\* C12: a second call on the same list returns, for every anchor, the result
\* of the first call, and no step of a call changes the list or the
\* connection lists in it.  (The ground-truth table is a constant.)
\* ------------------------------------------------------------------------
C12_SecondCallSameResult ==
    [][/\ allAnchors' = allAnchors
       /\ call' = "second" =>
            \A id \in DOMAIN qodResults' : qodResults'[id] = firstResults'[id]]_vars

\* the second call has scored every anchor, one of them by least squares
\* with a bias that is not zero
C12_Witness ==
    /\ call = "second"
    /\ pc = "returned"
    /\ cursor > Len(allAnchors)
    /\ \E a \in Scored :
            /\ qodResults[a.id].method = "least-squares"
            /\ qodResults[a.id].scaleBias # Some(0)

\* ------------------------------------------------------------------------
\* C13: in both ground-truth tables every key X-Y has its reverse Y-X with
\* the same value, and every value is strictly positive, whatever call of
\* the scoring is under way: the tables are constants, which no operation
\* writes.
\* ------------------------------------------------------------------------
SiteLabels == {"Window", "Kitchen", "Meeting Room"}
GridLabels == {"A", "B", "C", "D"}

SymmetricPositive(table, labels) ==
    /\ DOMAIN table \subseteq {x \o "-" \o y : x \in labels, y \in labels}
    /\ \A x \in labels, y \in labels :
            (x \o "-" \o y) \in DOMAIN table =>
                /\ (y \o "-" \o x) \in DOMAIN table
                /\ table[y \o "-" \o x] = table[x \o "-" \o y]
                /\ table[x \o "-" \o y] > 0

C13_TablesSymmetricPositive ==
    call \in {"first", "second"} =>
        /\ SymmetricPositive(GROUND_TRUTH_DISTANCES, SiteLabels)
        /\ SymmetricPositive(GROUND_TRUTH_DISTANCES_Grid, GridLabels)

\* two anchors that measured each other have been scored: the table was
\* read in both directions of a pair
C13_Witness ==
    \E a \in Scored, b \in Scored :
        /\ a.id # b.id
        /\ \E n \in QualifyingAt(a) : connAt(a, n).connectedTo = b.destination
        /\ \E n \in QualifyingAt(b) : connAt(b, n).connectedTo = a.destination

\* ------------------------------------------------------------------------
\* C23: a connection contributes an equation only if its anchor has a
\* non-empty destination, the connection has a measuredDistance and the key
\* destination-connectedTo is in the ground-truth table; every contributing
\* connection adds exactly one equation (i = the anchor's id, j =
\* connectedToId, k = 2 * (m - g) / g), and repeated or reverse-direction
\* connections are not merged.
\* ------------------------------------------------------------------------
\* the connections of the list that contribute, as (anchor, connection) indices
Contributing(list) ==
    UNION {{<<m, n>> : n \in QualifyingAt(list[m])} : m \in 1..Len(list)}

kAt(a, n) ==
    DivFix(2 * (Get(connAt(a, n).measuredDistance) - truthAt(a, n)), truthAt(a, n))

EquationAt(list, p) ==
    [i |-> list[p[1]].id,
     j |-> connAt(list[p[1]], p[2]).connectedToId,
     k |-> kAt(list[p[1]], p[2])]

\* the three conditions the claim names, for connection n of anchor a
MayContribute(a, n) ==
    /\ a.destination \notin {"", Undefined}
    /\ Has(connAt(a, n).measuredDistance)
    /\ (a.destination \o "-" \o connAt(a, n).connectedTo)
            \in DOMAIN GROUND_TRUTH_DISTANCES

C23_OneEquationPerContributingConnection ==
    pc # "build" =>
        /\ Len(equations) = Cardinality(Contributing(allAnchors))
        /\ \A e \in Range(equations) :
                /\ Cardinality({n \in 1..Len(equations) : equations[n] = e})
                     = Cardinality({p \in Contributing(allAnchors) :
                                        EquationAt(allAnchors, p) = e})
                /\ \E p \in Contributing(allAnchors) :
                        /\ EquationAt(allAnchors, p) = e
                        /\ MayContribute(allAnchors[p[1]], p[2])

\* one anchor contributed the same equation twice, and a connection of the
\* list contributed nothing
C23_Witness ==
    /\ pc # "build"
    /\ \E n1, n2 \in 1..Len(equations) : n1 # n2 /\ equations[n1] = equations[n2]
    /\ \E m \in 1..Len(allAnchors) :
            /\ Has(allAnchors[m].anchorConnections)
            /\ \E n \in 1..Len(Get(allAnchors[m].anchorConnections)) :
                    n \notin QualifyingAt(allAnchors[m])

\* ------------------------------------------------------------------------
\* C24: every key of a non-empty returned bias map is an endpoint (i or j)
\* of at least one qualifying equation.
\* ------------------------------------------------------------------------
EquationEndpoints(list) ==
    UNION {{list[p[1]].id, connAt(list[p[1]], p[2]).connectedToId} :
                p \in Contributing(list)}

C24_KeysAreEquationEndpoints ==
    pc = "returned" => DOMAIN biases \subseteq EquationEndpoints(allAnchors)

\* ------------------------------------------------------------------------
\* C25: a sweep computes every new bias from the biases held at its start,
\* so neither the result of a sweep nor that of the 10 sweeps depends on
\* the order of the identifiers or of the equations.
\* ------------------------------------------------------------------------
Reverse(seq) == [n \in 1..Len(seq) |-> seq[Len(seq) + 1 - n]]

Reorderings(seq) ==
    {[n \in 1..Len(seq) |-> seq[p[n]]] : p \in Permutations(1..Len(seq))}

MutualPair(list) ==
    /\ Len(list) = 2
    /\ QualifyingAt(list[1]) = {1}
    /\ QualifyingAt(list[2]) = {1}
    /\ Len(Get(list[1].anchorConnections)) = 1
    /\ Len(Get(list[2].anchorConnections)) = 1
    /\ connAt(list[1], 1).connectedToId = list[2].id
    /\ connAt(list[2], 1).connectedToId = list[1].id
    /\ kAt(list[1], 1) = kAt(list[2], 1)
    /\ kAt(list[1], 1) # 0

C27_MutualPairSumsToK ==
    (MutualPair(allAnchors) /\ pc = "returned") =>
        /\ DOMAIN biases = {allAnchors[1].id, allAnchors[2].id}
        /\ biases[allAnchors[1].id] + biases[allAnchors[2].id]
                = kAt(allAnchors[1], 1)
        /\ ~AllZero(biases)
        /\ \A a \in Scored : qodResults[a.id].accuracyScore < HUNDRED

\* ------------------------------------------------------------------------
\* The dashboard GuardianConsole: what the service and the socket deliver
\* ------------------------------------------------------------------------
\* the device lists a response or a message can carry, a device being shown
\* by its id
AnchorLists == {<<>>, <<"a1">>, <<"a1", "a2">>}
NavigatorLists == {<<>>, <<"n1">>}

\* page.tsx lines 204-235 and 237-250: the sample devices of the first revision
mockAnchors == <<"akshata@valuenex.com", "elena@valuenex.com", "subhavee1@gmail.com">>
mockNavigators == <<"navigator1@test.com">>

\* page.tsx lines 55-86
mockContracts ==
    <<[txId |-> "0xa7b2c9d4", navigatorId |-> "Akshata"],
      [txId |-> "0x3f8e1a6b", navigatorId |-> "Subha"]>>

\* the JSON bodies of GET /api/all: every choice of present and absent
\* lists with two devices connected, and a body without lists and one with
\* both for a count that is absent or zero
Bodies ==
    [anchors : {None} \cup {Some(list) : list \in AnchorLists},
     navigators : {None} \cup {Some(list) : list \in NavigatorLists},
     connection_count : {Some(2)}]
    \cup [anchors : {None, Some(<<"a1">>)},
          navigators : {None, Some(<<"n1">>)},
          connection_count : {None, Some(0)}]

NoBody == [anchors |-> None, navigators |-> None, connection_count |-> None]

\* how a request of fetchData ends: an OK response with a body, a response
\* that is not OK, a rejected fetch, the abort of the 2 s timeout, or an OK
\* response whose body response.json() or the reading of its fields rejects
FailureKinds == {"not_ok", "network_error", "timeout", "bad_body"}
Outcomes ==
    {[kind |-> "ok", body |-> b] : b \in Bodies}
    \cup {[kind |-> k, body |-> NoBody] : k \in FailureKinds}

\* the first revision fetches /api/anchors, then /api/navigators: each
\* answers with a JSON array, and no timeout is set
LegacyOutcomes(stage) ==
    (IF stage = "anchors"
     THEN {[kind |-> "ok", body |-> [NoBody EXCEPT !.anchors = Some(list)]] :
              list \in AnchorLists}
     ELSE {[kind |-> "ok", body |-> [NoBody EXCEPT !.navigators = Some(list)]] :
              list \in NavigatorLists})
    \cup {[kind |-> k, body |-> NoBody] : k \in FailureKinds \ {"timeout"}}

throws(outcome) == outcome.kind \in {"network_error", "timeout", "bad_body"}

\* a request issued once the service has recovered is answered OK, with a
\* positive connection_count
AnswersRecovered(outcome) ==
    /\ outcome.kind = "ok"
    /\ Has(outcome.body.connection_count)
    /\ Get(outcome.body.connection_count) > 0

\* the contracts a navigator_completed message can carry
ContractPayloads ==
    {[txId |-> "tx1", navigatorName |-> "Ann", navigatorId |-> "n1"],
     [txId |-> "tx2", navigatorName |-> Undefined, navigatorId |-> "n2"]}

DataPayloads ==
    [anchors : {None} \cup {Some(list) : list \in AnchorLists},
     navigators : {None} \cup {Some(list) : list \in NavigatorLists}]

\* the frames of the socket: event.data parses to a message with a type and
\* possibly a contract or a data field, or does not parse
Messages ==
    {[type |-> "navigator_completed", contract |-> c, data |-> None] :
        c \in {None} \cup {Some(p) : p \in ContractPayloads}}
    \cup {[type |-> "update", contract |-> None, data |-> d] :
            d \in {None} \cup {Some(p) : p \in DataPayloads}}
    \cup {[type |-> "initial", contract |-> None, data |-> d] :
            d \in {None, Some([anchors |-> Some(<<"a1", "a2">>),
                               navigators |-> Some(<<"n1">>)])}}
    \cup {[type |-> ty, contract |-> None, data |-> None] :
            ty \in {"pong", "unparseable"}}

\* ------------------------------------------------------------------------
\* The handlers, as functions of the component state
\* ------------------------------------------------------------------------
Console ==
    [anchors |-> anchors, navigators |-> navigators,
     connectionStatus |-> connectionStatus, contracts |-> contracts,
     qodScores |-> qodScores, robots |-> robots]

\* x || []
orEmpty(o) == IF Has(o) THEN Get(o) ELSE <<>>

\* a status that calls the service connected as soon as it reports a count
statusFromCountPresent(count) ==
    IF Has(count) THEN "connected" ELSE "disconnected"

\* page.tsx line 1994: data.connection_count > 0 ? "connected" : "disconnected"
statusFromCount(count) ==
    IF Has(count) /\ Get(count) > 0 THEN "connected" ELSE "disconnected"

\* page.tsx lines 1976-2011 (part_000 lines 440-476): fetchData from the
\* arrival of the response on
fetchData(d, outcome) ==
    IF outcome.kind = "ok"
    THEN [d EXCEPT !.anchors = orEmpty(outcome.body.anchors),
                   !.navigators = orEmpty(outcome.body.navigators),
                   !.connectionStatus = statusFromCount(outcome.body.connection_count)]
    ELSE IF outcome.kind = "not_ok"
    THEN [d EXCEPT !.connectionStatus = "error"]
    ELSE [d EXCEPT !.connectionStatus = "disconnected",
                   !.anchors = <<>>, !.navigators = <<>>]

\* part_000 lines 283-299: the keys of the map calculateAllDeviceQoD returns
calculateAllDeviceQoDKeys(anchorDevices, navigatorDevices) ==
    Range(anchorDevices) \cup Range(navigatorDevices)

\* part_000 lines 440-476: fetchData of the revision that scores the devices
\* itself; only the branch of an OK response calls setQodScores
fetchDataQoD(d, outcome) ==
    IF outcome.kind = "ok"
    THEN [fetchData(d, outcome) EXCEPT
            !.qodScores = calculateAllDeviceQoDKeys(orEmpty(outcome.body.anchors),
                                                    orEmpty(outcome.body.navigators))]
    ELSE fetchData(d, outcome)

\* page.tsx lines 199-251: the catch branch of the first revision
legacyCatch(d) ==
    [d EXCEPT !.connectionStatus = "error",
              !.anchors = mockAnchors, !.navigators = mockNavigators]

\* page.tsx lines 184-189
legacyAnchorsResponse(d, outcome) ==
    IF outcome.kind = "ok"
    THEN [d EXCEPT !.anchors = Get(outcome.body.anchors),
                   !.connectionStatus = "connected"]
    ELSE IF outcome.kind = "not_ok" THEN d
    ELSE legacyCatch(d)

\* page.tsx lines 192-198
legacyNavigatorsResponse(d, outcome) ==
    IF outcome.kind = "ok"
    THEN [d EXCEPT !.navigators = Get(outcome.body.navigators)]
    ELSE IF outcome.kind = "not_ok" THEN d
    ELSE legacyCatch(d)

\* page.tsx lines 1918-1933, the fields the model keeps
newContract(contract) ==
    [txId |-> contract.txId,
     navigatorId |-> IF TruthyStr(contract.navigatorName)
                     THEN contract.navigatorName ELSE contract.navigatorId]

\* a handler that takes a list of a message only when it has devices
onmessageNonEmptyOnly(d, message) ==
    IF message.type = "navigator_completed" /\ Has(message.contract)
    THEN [d EXCEPT !.contracts = <<newContract(Get(message.contract))>> \o @]
    ELSE IF message.type \in {"initial", "update"} /\ Has(message.data)
    THEN [d EXCEPT !.anchors = IF orEmpty(Get(message.data).anchors) # <<>>
                                THEN Get(Get(message.data).anchors) ELSE @,
                   !.navigators = IF orEmpty(Get(message.data).navigators) # <<>>
                                   THEN Get(Get(message.data).navigators) ELSE @]
    ELSE d

\* a handler that writes both lists on every initial or update message:
\* setAnchors(data.anchors || []), setNavigators(data.navigators || [])
onmessageClearsMissing(d, message) ==
    IF message.type = "navigator_completed" /\ Has(message.contract)
    THEN [d EXCEPT !.contracts = <<newContract(Get(message.contract))>> \o @]
    ELSE IF message.type \in {"initial", "update"} /\ Has(message.data)
    THEN [d EXCEPT !.anchors = orEmpty(Get(message.data).anchors),
                   !.navigators = orEmpty(Get(message.data).navigators)]
    ELSE d

\* a handler that keeps one record per txId
onmessageDedup(d, message) ==
    IF message.type = "navigator_completed" /\ Has(message.contract)
    THEN IF \E n \in 1..Len(d.contracts) :
                d.contracts[n].txId = Get(message.contract).txId
         THEN d
         ELSE [d EXCEPT !.contracts = <<newContract(Get(message.contract))>> \o @]
    ELSE IF message.type \in {"initial", "update"} /\ Has(message.data)
    THEN [d EXCEPT !.anchors = IF Has(Get(message.data).anchors)
                                THEN Get(Get(message.data).anchors) ELSE @,
                   !.navigators = IF Has(Get(message.data).navigators)
                                   THEN Get(Get(message.data).navigators) ELSE @]
    ELSE d

\* page.tsx lines 1909-1949: a frame that does not parse, and an initial or
\* update message without data, raise inside the try and change nothing
onmessage(d, message) ==
    IF message.type = "navigator_completed" /\ Has(message.contract)
    THEN [d EXCEPT !.contracts = <<newContract(Get(message.contract))>> \o @]
    ELSE IF message.type \in {"initial", "update"} /\ Has(message.data)
    THEN [d EXCEPT !.anchors = IF Has(Get(message.data).anchors)
                                THEN Get(Get(message.data).anchors) ELSE @,
                   !.navigators = IF Has(Get(message.data).navigators)
                                   THEN Get(Get(message.data).navigators) ELSE @]
    ELSE d

\* page.tsx lines 1904-1907
onopen(d) == [d EXCEPT !.connectionStatus = "connected"]
\* page.tsx lines 1951-1954
onerror(d) == [d EXCEPT !.connectionStatus = "error"]
\* page.tsx lines 1956-1959
onclose(d) == [d EXCEPT !.connectionStatus = "disconnected"]

\* ------------------------------------------------------------------------
\* The dashboard as a state machine
\* ------------------------------------------------------------------------
\* the state setters: React drops the updates of a component that is no
\* longer mounted
Commit(d) ==
    IF mounted
    THEN /\ anchors' = d.anchors
         /\ navigators' = d.navigators
         /\ connectionStatus' = d.connectionStatus
         /\ contracts' = d.contracts
         /\ qodScores' = d.qodScores
         /\ robots' = d.robots
    ELSE UNCHANGED <<anchors, navigators, connectionStatus, contracts, qodScores,
                     robots>>

RemoveAt(seq, i) == SubSeq(seq, 1, i - 1) \o SubSeq(seq, i + 1, Len(seq))

\* what lastEvent records of a response or a socket event: its content while
\* the component is mounted, and only its source once the updates are dropped
pollEvent(i, outcome) ==
    IF mounted
    THEN [source |-> "poll", kind |-> outcome.kind,
          anchors |-> outcome.body.anchors, navigators |-> outcome.body.navigators,
          count |-> outcome.body.connection_count, contract |-> None,
          overtook |-> i > 1, fresh |-> inflight[i].fresh, live |-> TRUE]
    ELSE [NoEvent EXCEPT !.source = "poll"]

socketEvent(source, message) ==
    IF mounted
    THEN [source |-> source, kind |-> message.type,
          anchors |-> IF Has(message.data) THEN Get(message.data).anchors ELSE None,
          navigators |-> IF Has(message.data) THEN Get(message.data).navigators
                         ELSE None,
          count |-> None, contract |-> message.contract,
          overtook |-> FALSE, fresh |-> FALSE, live |-> TRUE]
    ELSE [NoEvent EXCEPT !.source = source]

\* a poll failed on the network, and no poll has succeeded since
failedSince(outcome) ==
    IF ~mounted THEN sinceNetworkError
    ELSE IF outcome.kind = "network_error" THEN TRUE
    ELSE IF outcome.kind = "ok" THEN FALSE
    ELSE sinceNetworkError

NoMessage == [type |-> "", contract |-> None, data |-> None]

firstStage == IF revision = "legacy" THEN "anchors" ELSE "all"

\* no scoring is modelled while the dashboard runs
NoScoring ==
    /\ allAnchors = <<>>
    /\ pc = "returned"
    /\ equations = <<>>
    /\ anchorIds = <<>>
    /\ s = EmptyMap
    /\ iter = 0
    /\ history = <<>>
    /\ biases = EmptyMap
    /\ cursor = 1
    /\ qodResults = EmptyMap
    /\ raised = FALSE
    /\ call = "first"
    /\ firstResults = EmptyMap

\* the component after its first render and its effects: the socket is being
\* opened (line 1902), the first fetchData is under way (lines 255, 2015) and
\* the interval is set (lines 258, 2018)
InitConsole ==
    /\ NoScoring
    /\ revision \in {"legacy", "websocket"}
    /\ mounted = TRUE
    /\ timerOn = TRUE
    /\ inflight = <<[stage |-> firstStage, fresh |-> FALSE]>>
    /\ anchors = <<>>
    /\ navigators = <<>>
    /\ connectionStatus = "disconnected"
    /\ contracts = IF revision = "legacy" THEN mockContracts ELSE <<>>
    /\ readyState = IF revision = "websocket" THEN "CONNECTING" ELSE "NONE"
    /\ recovered = FALSE
    /\ lastEvent = NoEvent
    /\ sinceNetworkError = FALSE
    /\ qodScores = {}
    /\ robots = <<>>
    /\ NoRelay

\* a timer handler that gives up polling once the status is "error"
TickUnlessError ==
    /\ timerOn
    /\ connectionStatus # "error"
    /\ Len(inflight) < MaxInFlight
    /\ inflight' = Append(inflight, [stage |-> firstStage, fresh |-> recovered])
    /\ UNCHANGED <<revision, mounted, timerOn, anchors, navigators, connectionStatus,
                   contracts, readyState, recovered, lastEvent, sinceNetworkError,
                   qodScores, robots>>
    /\ UNCHANGED <<qodVars, relayVars>>

\* lines 258, 2018: the interval fires and calls fetchData, which sends one
\* request; with a period of 1 s and a timeout of 2 s few requests are open
Tick ==
    /\ timerOn
    /\ Len(inflight) < MaxInFlight
    /\ inflight' = Append(inflight, [stage |-> firstStage, fresh |-> recovered])
    /\ UNCHANGED <<revision, mounted, timerOn, anchors, navigators, connectionStatus,
                   contracts, readyState, recovered, lastEvent, sinceNetworkError,
                   qodScores, robots>>
    /\ UNCHANGED <<qodVars, relayVars>>

\* page.tsx lines 1978-2011: the request at position i ends
PollCompletes(i, outcome) ==
    /\ revision \in {"polling", "websocket"}
    /\ i \in 1..Len(inflight)
    /\ outcome \in Outcomes
    /\ inflight[i].fresh => AnswersRecovered(outcome)
    /\ Commit(IF revision = "polling" THEN fetchDataQoD(Console, outcome)
              ELSE fetchData(Console, outcome))
    /\ inflight' = RemoveAt(inflight, i)
    /\ lastEvent' = pollEvent(i, outcome)
    /\ sinceNetworkError' = failedSince(outcome)
    /\ UNCHANGED <<revision, mounted, timerOn, readyState, recovered>>
    /\ UNCHANGED <<qodVars, relayVars>>

SomePollCompletes ==
    \E i \in 1..Len(inflight), outcome \in Outcomes : PollCompletes(i, outcome)

\* page.tsx lines 184-189 and 199-251: the request for the anchors ends, and
\* unless it raised, fetchData goes on to request the navigators
LegacyAnchorsResponse(i, outcome) ==
    /\ revision = "legacy"
    /\ i \in 1..Len(inflight)
    /\ inflight[i].stage = "anchors"
    /\ outcome \in LegacyOutcomes("anchors")
    /\ inflight[i].fresh => outcome.kind = "ok"
    /\ Commit(legacyAnchorsResponse(Console, outcome))
    /\ inflight' = IF throws(outcome) THEN RemoveAt(inflight, i)
                   ELSE [inflight EXCEPT ![i].stage = "navigators"]
    /\ lastEvent' = pollEvent(i, outcome)
    /\ sinceNetworkError' = failedSince(outcome)
    /\ UNCHANGED <<revision, mounted, timerOn, readyState, recovered>>
    /\ UNCHANGED <<qodVars, relayVars>>

\* page.tsx lines 192-251: the request for the navigators ends
LegacyNavigatorsResponse(i, outcome) ==
    /\ revision = "legacy"
    /\ i \in 1..Len(inflight)
    /\ inflight[i].stage = "navigators"
    /\ outcome \in LegacyOutcomes("navigators")
    /\ inflight[i].fresh => outcome.kind = "ok"
    /\ Commit(legacyNavigatorsResponse(Console, outcome))
    /\ inflight' = RemoveAt(inflight, i)
    /\ lastEvent' = pollEvent(i, outcome)
    /\ sinceNetworkError' = failedSince(outcome)
    /\ UNCHANGED <<revision, mounted, timerOn, readyState, recovered>>
    /\ UNCHANGED <<qodVars, relayVars>>

\* page.tsx lines 1904-1907: the connection is established
WsOpen ==
    /\ readyState = "CONNECTING"
    /\ readyState' = "OPEN"
    /\ Commit(onopen(Console))
    /\ lastEvent' = socketEvent("open", NoMessage)
    /\ UNCHANGED <<revision, mounted, timerOn, inflight, recovered, sinceNetworkError>>
    /\ UNCHANGED <<qodVars, relayVars>>

\* page.tsx lines 1909-1949: a frame arrives on the open socket
WsMessage(message) ==
    /\ readyState = "OPEN"
    /\ message \in Messages
    /\ Has(message.contract) => Len(contracts) < MaxContracts
    /\ Commit(onmessage(Console, message))
    /\ lastEvent' = socketEvent("message", message)
    /\ UNCHANGED <<revision, mounted, timerOn, inflight, readyState, recovered,
                   sinceNetworkError>>
    /\ UNCHANGED <<qodVars, relayVars>>

\* page.tsx lines 1951-1959: the connection fails; the browser fires error,
\* then close, in one task
WsFail ==
    /\ readyState \in {"CONNECTING", "OPEN"}
    /\ readyState' = "CLOSED"
    /\ Commit(onclose(onerror(Console)))
    /\ lastEvent' = socketEvent("error", NoMessage)
    /\ UNCHANGED <<revision, mounted, timerOn, inflight, recovered, sinceNetworkError>>
    /\ UNCHANGED <<qodVars, relayVars>>

\* page.tsx lines 1956-1959: the server closes the connection, or the
\* closing handshake started by close() ends
WsClose ==
    /\ readyState \in {"OPEN", "CLOSING"}
    /\ readyState' = "CLOSED"
    /\ Commit(onclose(Console))
    /\ lastEvent' = socketEvent("close", NoMessage)
    /\ UNCHANGED <<revision, mounted, timerOn, inflight, recovered, sinceNetworkError>>
    /\ UNCHANGED <<qodVars, relayVars>>

\* page.tsx lines 260, 1963-1967 and 2020: the cleanups of the two effects
Unmount ==
    /\ mounted
    /\ mounted' = FALSE
    /\ timerOn' = FALSE
    /\ readyState' = IF readyState = "OPEN" THEN "CLOSING" ELSE readyState
    /\ UNCHANGED <<revision, inflight, anchors, navigators, connectionStatus,
                   contracts, recovered, lastEvent, sinceNetworkError, qodScores,
                   robots>>
    /\ UNCHANGED <<qodVars, relayVars>>

\* the service comes back for good
Recover ==
    /\ ~recovered
    /\ recovered' = TRUE
    /\ UNCHANGED <<revision, mounted, timerOn, inflight, anchors, navigators,
                   connectionStatus, contracts, readyState, lastEvent,
                   sinceNetworkError, qodScores, robots>>
    /\ UNCHANGED <<qodVars, relayVars>>

NextConsole ==
    \/ Tick
    \/ SomePollCompletes
    \/ \E i \in 1..Len(inflight), outcome \in LegacyOutcomes("anchors") :
          LegacyAnchorsResponse(i, outcome)
    \/ \E i \in 1..Len(inflight), outcome \in LegacyOutcomes("navigators") :
          LegacyNavigatorsResponse(i, outcome)
    \/ WsOpen
    \/ \E message \in Messages : WsMessage(message)
    \/ WsFail
    \/ WsClose
    \/ Unmount

SpecConsole == InitConsole /\ [][NextConsole]_vars

\* part_000 lines 416-486: the revision that polls /api/all and opens no
\* socket, observed across a recovery of the service
InitPolling ==
    /\ NoScoring
    /\ revision = "polling"
    /\ mounted = TRUE
    /\ timerOn = TRUE
    /\ inflight = <<[stage |-> firstStage, fresh |-> FALSE]>>
    /\ anchors = <<>>
    /\ navigators = <<>>
    /\ connectionStatus = "disconnected"
    /\ contracts = mockContracts
    /\ readyState = "NONE"
    /\ recovered = FALSE
    /\ lastEvent = NoEvent
    /\ sinceNetworkError = FALSE
    /\ qodScores = {}
    /\ robots = <<>>
    /\ NoRelay

NextPolling == Tick \/ SomePollCompletes \/ Unmount \/ Recover

\* setInterval keeps firing while it is registered, and every request ends:
\* by a response, a rejection, or the abort of AbortSignal.timeout(2000)
SpecPolling ==
    InitPolling /\ [][NextPolling]_vars
    /\ WF_vars(Tick) /\ WF_vars(SomePollCompletes)

TypeOKConsole ==
    /\ revision \in {"legacy", "polling", "websocket"}
    /\ Len(inflight) <= MaxInFlight
    /\ connectionStatus \in {"connected", "disconnected", "error"}
    /\ readyState \in {"NONE", "CONNECTING", "OPEN", "CLOSING", "CLOSED"}
    /\ Len(contracts) <= MaxContracts

\* ------------------------------------------------------------------------
\* Vocabulary of the dashboard properties
\* ------------------------------------------------------------------------
\* the last event processed while mounted was a poll that ended this way
LastPoll(kinds) ==
    /\ lastEvent.live
    /\ lastEvent.source = "poll"
    /\ lastEvent.kind \in kinds

ListOf(field) == IF field = None THEN <<>> ELSE Get(field)

\* ------------------------------------------------------------------------
\* C14: after a poll of /api/all answered OK, anchors and navigators are
\* exactly the lists of the response, the empty list for an absent field,
\* and connectionStatus is "connected" when connection_count is above zero
\* and "disconnected" otherwise.
\* ------------------------------------------------------------------------
C14_OkPollReplacesLists ==
    (revision # "legacy" /\ LastPoll({"ok"})) =>
        /\ anchors = ListOf(lastEvent.anchors)
        /\ navigators = ListOf(lastEvent.navigators)
        /\ connectionStatus =
              IF lastEvent.count \in {None, Some(0)} THEN "disconnected"
              ELSE "connected"

\* an OK response without anchors and with a count of zero has emptied the
\* anchors list and set the status to "disconnected"
C14_Witness ==
    /\ revision = "websocket"
    /\ LastPoll({"ok"})
    /\ lastEvent.anchors = None
    /\ lastEvent.navigators = Some(<<"n1">>)
    /\ lastEvent.count = Some(0)
    /\ anchors = <<>>
    /\ navigators = <<"n1">>
    /\ connectionStatus = "disconnected"

\* ------------------------------------------------------------------------
\* C15: after a poll that failed (network error, timeout, or a response
\* that is not OK) connectionStatus is "error" or "disconnected" and both
\* lists are empty.
\* ------------------------------------------------------------------------
C15_FailedPollClearsLists ==
    (revision # "legacy" /\ LastPoll({"network_error", "timeout", "not_ok"})) =>
        /\ connectionStatus \in {"error", "disconnected"}
        /\ anchors = <<>>
        /\ navigators = <<>>

\* ------------------------------------------------------------------------
\* C16: once a poll has failed with a network error, and until a poll
\* succeeds, the lists hold no sample records and are empty.
\* ------------------------------------------------------------------------
C16_NoDataAfterNetworkError ==
    sinceNetworkError =>
        /\ anchors = <<>>
        /\ navigators = <<>>

\* ------------------------------------------------------------------------
\* C17: a failed poll neither stops the timer nor issues a request of its
\* own, a tick issues exactly one request, and once the service answers
\* every new request OK with a positive connection_count, a mounted
\* dashboard gets to show "connected" with the lists of a response to a
\* request issued after the recovery.
\* ------------------------------------------------------------------------
ShowsRecoveredSnapshot ==
    /\ connectionStatus = "connected"
    /\ LastPoll({"ok"})
    /\ lastEvent.fresh
    /\ anchors = ListOf(lastEvent.anchors)
    /\ navigators = ListOf(lastEvent.navigators)

C17_PollingSurvivesFailures ==
    /\ [][/\ (timerOn /\ mounted') => timerOn'
          /\ Len(inflight') <= Len(inflight) + 1
          /\ lastEvent' # lastEvent => Len(inflight') = Len(inflight) - 1
          /\ (timerOn /\ Len(inflight) < MaxInFlight) => ENABLED Tick]_vars
    /\ (recovered /\ mounted) ~> (~mounted \/ ShowsRecoveredSnapshot)

\* the dashboard shows a snapshot of after the recovery while a request
\* issued before it is still open
C17_Witness ==
    /\ revision = "polling"
    /\ mounted
    /\ recovered
    /\ ShowsRecoveredSnapshot
    /\ anchors = <<"a1", "a2">>
    /\ \E n \in 1..Len(inflight) : ~inflight[n].fresh

\* ------------------------------------------------------------------------
\* C18: responses and socket messages are applied in the order they are
\* processed: after every step, each list is the value the last processed
\* event wrote to it if it wrote one, and is unchanged by the step if not.
\* An OK response writes both lists, a poll that raised writes two empty
\* lists, an initial or update message writes the lists its data carries.
\* ------------------------------------------------------------------------
Writes(e, field) ==
    IF ~e.live THEN None
    ELSE IF e.source = "poll"
    THEN (IF e.kind = "ok" THEN Some(ListOf(field))
          ELSE IF e.kind = "not_ok" THEN None
          ELSE Some(<<>>))
    ELSE IF e.source = "message" /\ e.kind \in {"initial", "update"} /\ field # None
    THEN Some(Get(field))
    ELSE None

C18_LastWriterWins ==
    [][revision' = "websocket" =>
        /\ anchors' = IF Writes(lastEvent', lastEvent'.anchors) = None THEN anchors
                      ELSE Get(Writes(lastEvent', lastEvent'.anchors))
        /\ navigators' = IF Writes(lastEvent', lastEvent'.navigators) = None
                         THEN navigators
                         ELSE Get(Writes(lastEvent', lastEvent'.navigators))]_vars

\* the response to a request that overtook an older one has replaced the
\* lists while the socket is open
C18_Witness ==
    /\ revision = "websocket"
    /\ readyState = "OPEN"
    /\ LastPoll({"ok"})
    /\ lastEvent.overtook
    /\ anchors = <<"a1">>
    /\ navigators = <<>>

\* ------------------------------------------------------------------------
\* C19: after the unmount the timer is cancelled, no request is issued, the
\* socket is closing or closed whatever its state was, and no event
\* changes the state of the dashboard.
\* ------------------------------------------------------------------------
C19_QuiescentAfterUnmount ==
    [][(revision' = "websocket" /\ ~mounted') =>
        /\ ~timerOn'
        /\ readyState' \in {"CLOSING", "CLOSED"}
        /\ ~mounted =>
              /\ Console' = Console
              /\ Len(inflight') <= Len(inflight)]_vars

\* ------------------------------------------------------------------------
\* C20: a navigator_completed message with a contract adds exactly one
\* record, of that txId, to the contract list, also when a record of the
\* txId is held; the records held before stay, unmodified and in their
\* order; and no other event, a poll result included, changes the list.
\* ------------------------------------------------------------------------
\* after is before with one record of the txId inserted
AddsOne(before, after, txId) ==
    /\ Len(after) = Len(before) + 1
    /\ \E p \in 1..Len(after) :
          /\ after[p].txId = txId
          /\ RemoveAt(after, p) = before

Carries(message, field) ==
    Has(message.data) /\ Has(Get(message.data)[field])

Malformed(message) ==
    \/ message.type = "unparseable"
    \/ message.type \in {"initial", "update"} /\ ~Has(message.data)

C29_MessageReplacesOnlyCarriedLists ==
    [][revision' = "websocket" =>
        \A message \in Messages :
            (message.type \in {"initial", "update", "unparseable"}
                /\ WsMessage(message)) =>
                /\ contracts' = contracts
                /\ connectionStatus' = connectionStatus
                /\ anchors' = IF mounted /\ Carries(message, "anchors")
                              THEN Get(Get(message.data).anchors) ELSE anchors
                /\ navigators' = IF mounted /\ Carries(message, "navigators")
                                 THEN Get(Get(message.data).navigators)
                                 ELSE navigators
                /\ Malformed(message) =>
                        UNCHANGED <<revision, mounted, timerOn, inflight, anchors,
                                    navigators, connectionStatus, contracts,
                                    readyState, recovered, sinceNetworkError>>]_vars

\* an update that carried navigators and no anchors was processed while
\* anchors were shown
C29_Witness ==
    /\ revision = "websocket"
    /\ lastEvent.source = "message"
    /\ lastEvent.kind = "update"
    /\ lastEvent.anchors = None
    /\ lastEvent.navigators = Some(<<"n1">>)
    /\ anchors # <<>>
    /\ navigators = <<"n1">>

\* ------------------------------------------------------------------------
\* C28: in the revision that scores the devices itself, after every
\* completed poll (successful, non-OK or failed) qodScores has an entry for
\* exactly the ids of the anchors and navigators lists; it is empty when
\* both lists are empty.
\* ------------------------------------------------------------------------
C28_QodScoresMatchLists ==
    (revision = "polling" /\ lastEvent.source = "poll" /\ lastEvent.live) =>
        /\ qodScores = Range(anchors) \cup Range(navigators)
        /\ (anchors = <<>> /\ navigators = <<>>) => qodScores = {}

\* ------------------------------------------------------------------------
\* The relay route /api/navigator-update (part_001)
\* ------------------------------------------------------------------------
\* the requests observed: completions that carry a contract, and updates
MaxCompletions == 102
MaxUpdates == 52

\* part_001 lines 28-29 and 55-56: the lengths the arrays are cut to
ContractsKept == 100
UpdatesKept == 50

\* a cut that keeps the first n elements, array.slice(0, n)
sliceFirst(seq, n) ==
    IF Len(seq) > n THEN SubSeq(seq, 1, n) ELSE seq

\* array.slice(-n) of an array longer than n: its last n elements
sliceLast(seq, n) ==
    IF Len(seq) > n THEN SubSeq(seq, Len(seq) - n + 1, Len(seq)) ELSE seq

\* What req.json() can make of a body: "unparseable" (it rejects), the JSON
\* value null, a JSON value that is no object ("number": reading a property
\* of it gives undefined), or an object with its type and contract fields.
\* Every stored payload is new: the n-th contract and the n-th update
\* received carry the number n.
RelayBodies ==
    {[json |-> "object", type |-> "navigator_completed",
      contract |-> Some(arrivals.contracts + 1), payload |-> 0],
     [json |-> "object", type |-> "navigator_completed",
      contract |-> None, payload |-> 0],
     [json |-> "object", type |-> "navigator_update",
      contract |-> None, payload |-> arrivals.updates + 1],
     [json |-> "object", type |-> Undefined,
      contract |-> None, payload |-> arrivals.updates + 1],
     [json |-> "number", type |-> Undefined,
      contract |-> None, payload |-> arrivals.updates + 1],
     [json |-> "null", type |-> Undefined, contract |-> None, payload |-> 0],
     [json |-> "unparseable", type |-> Undefined, contract |-> None, payload |-> 0]}

\* line 9 rejects, or line 12 reads a property of null
postRaises(data) == data.json \in {"unparseable", "null"}

\* lines 22-25: { ...data.contract, timestamp }
contractEntry(data) == [contract |-> Get(data.contract)]
\* lines 49-52: { ...data, timestamp }
updateEntry(data) == [update |-> data.payload]

\* a relay that archives every completion, with or without a contract
storeContractAlways(store, data) ==
    sliceLast(Append(store, [contract |-> IF Has(data.contract)
                                          THEN Get(data.contract) ELSE 0]),
              ContractsKept)

\* lines 21-31
storeContract(store, data) ==
    IF Has(data.contract)
    THEN sliceLast(Append(store, contractEntry(data)), ContractsKept)
    ELSE store

\* an update store cut from the wrong end
storeUpdateKeepOldest(store, data) ==
    sliceFirst(Append(store, updateEntry(data)), UpdatesKept)

\* lines 49-57
storeUpdate(store, data) ==
    sliceLast(Append(store, updateEntry(data)), UpdatesKept)

jsonResponse(op, status, success, message) ==
    [op |-> op, status |-> status, success |-> success, message |-> message,
     updates |-> None, contracts |-> None, count |-> None]

\* part_001 lines 7-75
POST(data) ==
    /\ data \in RelayBodies
    /\ (data.type = "navigator_completed" /\ Has(data.contract)) =>
            arrivals.contracts < MaxCompletions
    /\ (~postRaises(data) /\ data.type # "navigator_completed") =>
            arrivals.updates < MaxUpdates
    /\ IF postRaises(data)
       THEN /\ response' = jsonResponse("POST", 500, Some(FALSE),
                                        "Failed to process update")
            /\ UNCHANGED <<navigatorUpdates, smartContracts, arrivals>>
       ELSE IF data.type = "navigator_completed"
       THEN /\ smartContracts' = storeContract(smartContracts, data)
            /\ arrivals' = IF Has(data.contract)
                           THEN [arrivals EXCEPT !.contracts = @ + 1]
                           ELSE arrivals
            /\ response' = jsonResponse("POST", 200, Some(TRUE),
                                        "Navigator completion recorded")
            /\ UNCHANGED navigatorUpdates
       ELSE /\ navigatorUpdates' = storeUpdate(navigatorUpdates, data)
            /\ arrivals' = [arrivals EXCEPT !.updates = @ + 1]
            /\ response' = jsonResponse("POST", 200, Some(TRUE),
                                        "Navigator update received")
            /\ UNCHANGED smartContracts
    /\ UNCHANGED <<qodVars, consoleVars>>

\* part_001 lines 78-84
GET ==
    /\ response' = [op |-> "GET", status |-> 200, success |-> None, message |-> "",
                    updates |-> Some(navigatorUpdates),
                    contracts |-> Some(smartContracts),
                    count |-> Some(Len(navigatorUpdates))]
    /\ UNCHANGED <<navigatorUpdates, smartContracts, arrivals>>
    /\ UNCHANGED <<qodVars, consoleVars>>

InitRelay == NoScoring /\ NoConsole /\ NoRelay

NextRelay == (\E data \in RelayBodies : POST(data)) \/ GET

SpecRelay == InitRelay /\ [][NextRelay]_vars

\* ------------------------------------------------------------------------
\* C21: after any sequence of POST requests the contracts store holds at
\* most 100 entries and the updates store at most 50, and each holds exactly
\* the entries stored most recently, in the order of their arrival.
\* ------------------------------------------------------------------------
\* the last `kept` of the payloads 1..given, oldest first
MostRecent(given, kept) ==
    LET len == IF given < kept THEN given ELSE kept
    IN  [n \in 1..len |-> given - len + n]

C21_StoresHoldMostRecent ==
    /\ Len(smartContracts) <= 100
    /\ Len(navigatorUpdates) <= 50
    /\ [n \in 1..Len(smartContracts) |-> smartContracts[n].contract]
            = MostRecent(arrivals.contracts, 100)
    /\ [n \in 1..Len(navigatorUpdates) |-> navigatorUpdates[n].update]
            = MostRecent(arrivals.updates, 50)

\* both stores are full and have lost their oldest entries
C21_Witness ==
    /\ arrivals.contracts > 100
    /\ arrivals.updates > 50
    /\ Len(smartContracts) = 100
    /\ Len(navigatorUpdates) = 50
    /\ smartContracts[1].contract > 1
    /\ navigatorUpdates[1].update > 1

\* ------------------------------------------------------------------------
\* C22: every POST of type navigator_completed that is answered with
\* success adds exactly one entry to the contracts archive, and a following
\* GET returns the entry in its contracts list until 100 newer ones have
\* evicted it.
\* ------------------------------------------------------------------------
IsSuffix(x, y) ==
    Len(x) <= Len(y) /\ x = SubSeq(y, Len(y) - Len(x) + 1, Len(y))

\* after is before with one entry added at its end, cut to its last kept
AppendsOne(before, after, kept) ==
    /\ after # <<>>
    /\ Len(after) = (IF Len(before) + 1 < kept THEN Len(before) + 1 ELSE kept)
    /\ IsSuffix(SubSeq(after, 1, Len(after) - 1), before)

\* GET lists the store, in which the last 100 contracts given are present
GetListsRecentContracts ==
    GET =>
        /\ response'.contracts = Some(smartContracts)
        /\ \A k \in 1..arrivals.contracts :
                k > arrivals.contracts - 100 =>
                    \E n \in 1..Len(Get(response'.contracts)) :
                        Get(response'.contracts)[n].contract = k

C22_CompletionAddsOneEntry ==
    [][/\ \A data \in RelayBodies :
            (data.type = "navigator_completed" /\ POST(data)
                /\ response'.success = Some(TRUE)) =>
                AppendsOne(smartContracts, smartContracts', 100)
       /\ GetListsRecentContracts]_vars

\* as amended: the completions that carry a contract add one entry, that
\* contract; a completion without a contract is answered with success too
\* and adds nothing
C22_CompletionWithContractAddsOneEntry ==
    [][/\ \A data \in RelayBodies :
            (data.type = "navigator_completed" /\ POST(data)) =>
                /\ response'.success = Some(TRUE)
                /\ response'.status = 200
                /\ IF Has(data.contract)
                   THEN /\ AppendsOne(smartContracts, smartContracts', 100)
                        /\ smartContracts'[Len(smartContracts')].contract
                                = Get(data.contract)
                   ELSE smartContracts' = smartContracts
       /\ GetListsRecentContracts]_vars

\* a GET listed a full archive from which the first contracts are gone and
\* in which the last one given is the newest
C22_Witness ==
    /\ response.op = "GET"
    /\ arrivals.contracts > 100
    /\ Len(Get(response.contracts)) = 100
    /\ Get(response.contracts)[100].contract = arrivals.contracts
    /\ Get(response.contracts)[1].contract = arrivals.contracts - 99

\* ------------------------------------------------------------------------
\* C30: a POST whose body cannot be parsed as a JSON object is answered
\* with status 500 and success = false and leaves both stores unchanged; a
\* regular update never changes the contracts store, a completion never
\* changes the updates store, and GET changes neither and reports count
\* equal to the number of stored updates.
\* ------------------------------------------------------------------------
C30_BadBodyRejectedStoresSeparate ==
    [][/\ \A data \in RelayBodies :
            POST(data) =>
                /\ data.json # "object" =>
                        /\ response'.status = 500
                        /\ response'.success = Some(FALSE)
                        /\ UNCHANGED <<navigatorUpdates, smartContracts>>
                /\ (data.json = "object" /\ data.type # "navigator_completed") =>
                        smartContracts' = smartContracts
                /\ data.type = "navigator_completed" =>
                        navigatorUpdates' = navigatorUpdates
       /\ GET =>
            /\ UNCHANGED <<navigatorUpdates, smartContracts>>
            /\ response'.count = Some(Len(navigatorUpdates))]_vars

\* ------------------------------------------------------------------------
\* The revision with simulated data (page.tsx lines 939-1069)
\* ------------------------------------------------------------------------
\* page.tsx lines 742-771: the identifiers of the sample contracts, and one
\* more for a third contract
SampleTxIds == <<"0xa7b2c9d4", "0x3f8e1a6b", "0x51c07e2d">>

\* The contract lists the component can start with: the sample list of
\* lines 742-771 has the statuses Settled, Executing; the others put every
\* status a new contract can have at every position.
SampleContractLists ==
    UNION {{[n \in 1..len |-> [txId |-> SampleTxIds[n], status |-> statuses[n]]] :
                statuses \in [1..len -> {"Pending", "Executing", "Settled"}]} :
            len \in 1..MaxContracts}

\* page.tsx lines 837-855
sampleRobots == <<[id |-> "Akshata", status |-> "active", routeEta |-> 125]>>

\* page.tsx lines 774-805, the first two anchors.  The quality of an anchor
\* is kept as "sample" (the value of the sample data, 85 or 45) or "clamped"
\* (a value a fluctuation has brought into [0, 1]).
sampleAnchors ==
    <<[id |-> "Kitchen", status |-> "healthy", qod |-> "sample"],
      [id |-> "Window", status |-> "poor", qod |-> "sample"]>>

\* the outcomes of the calls of Math.random() one element of a list consumes
Draws == [first : BOOLEAN, second : BOOLEAN]

\* lines 1031-1036
tickRobot(robot) ==
    [robot EXCEPT !.routeEta = IF robot.status = "active" /\ robot.routeEta > 0
                               THEN Max(0, robot.routeEta - 5)
                               ELSE robot.routeEta]

\* a handler whose two tests run one after the other on the same contract
tickContractFallThrough(contract, draw) ==
    LET started == IF contract.status = "Pending" /\ draw.first
                   THEN [contract EXCEPT !.status = "Executing"] ELSE contract
    IN  IF started.status = "Executing" /\ draw.first
        THEN [started EXCEPT !.status = IF draw.second THEN "Settled" ELSE "Failed"]
        ELSE started

\* lines 1040-1048: draw.first is the test of the branch the status selects
\* (Math.random() > 0.9 or > 0.95), draw.second is Math.random() > 0.8
tickContract(contract, draw) ==
    IF contract.status = "Pending" /\ draw.first
    THEN [contract EXCEPT !.status = "Executing"]
    ELSE IF contract.status = "Executing" /\ draw.first
    THEN [contract EXCEPT !.status = IF draw.second THEN "Settled" ELSE "Failed"]
    ELSE contract

\* lines 1054-1060: Math.max(0, Math.min(1, anchor.qod + qodChange))
tickAnchor(anchor, draw) ==
    IF anchor.status # "quarantined" /\ draw.first
    THEN [anchor EXCEPT !.qod = "clamped"]
    ELSE anchor

\* lines 1065-1067
tickConnection(status, draw) ==
    IF draw.first THEN (IF status = "connected" THEN "degraded" ELSE "connected")
    ELSE status

\* lines 1027-1068: the interval fires
SimTick ==
    /\ revision = "simulated"
    /\ timerOn
    /\ robots' = [n \in 1..Len(robots) |-> tickRobot(robots[n])]
    /\ \E draws \in [1..Len(contracts) -> Draws] :
            contracts' = [n \in 1..Len(contracts) |->
                            tickContract(contracts[n], draws[n])]
    /\ \E draws \in [1..Len(anchors) -> [first : BOOLEAN, second : {FALSE}]] :
            anchors' = [n \in 1..Len(anchors) |-> tickAnchor(anchors[n], draws[n])]
    /\ \E draw \in [first : BOOLEAN, second : {FALSE}] :
            connectionStatus' = tickConnection(connectionStatus, draw)
    /\ UNCHANGED <<revision, mounted, timerOn, inflight, navigators, readyState,
                   recovered, lastEvent, sinceNetworkError, qodScores>>
    /\ UNCHANGED <<qodVars, relayVars>>

\* lines 942-958 and 1026-1069: the component after its first render, the
\* interval set
InitSimulation ==
    /\ NoScoring
    /\ NoRelay
    /\ revision = "simulated"
    /\ mounted = TRUE
    /\ timerOn = TRUE
    /\ inflight = <<>>
    /\ anchors = sampleAnchors
    /\ navigators = <<>>
    /\ robots = sampleRobots
    /\ connectionStatus = "connected"
    /\ contracts \in SampleContractLists
    /\ readyState = "NONE"
    /\ recovered = FALSE
    /\ lastEvent = NoEvent
    /\ sinceNetworkError = FALSE
    /\ qodScores = {}

NextSimulation == SimTick \/ Unmount

SpecSimulation == InitSimulation /\ [][NextSimulation]_vars

\* ------------------------------------------------------------------------
\* C26: in the revision with simulated data a contract's status only moves
\* along Pending -> Executing -> Settled or Failed over any sequence of
\* timer ticks: Pending never goes directly to Settled or Failed, Settled
\* and Failed are terminal, and a tick never adds or removes a contract.
\* ------------------------------------------------------------------------
Moves(from, to) ==
    \/ to = from
    \/ from = "Pending" /\ to = "Executing"
    \/ from = "Executing" /\ to \in {"Settled", "Failed"}

C26_ContractStatusMovesForward ==
    [][revision' = "simulated" =>
        /\ Len(contracts') = Len(contracts)
        /\ \A n \in 1..Len(contracts) :
              /\ contracts'[n].txId = contracts[n].txId
              /\ Moves(contracts[n].status, contracts'[n].status)]_vars

\* ticks have run the robot's route down while one contract failed and
\* another one has not started yet
C26_Witness ==
    /\ revision = "simulated"
    /\ robots[1].routeEta < 125
    /\ \E n \in 1..Len(contracts) : contracts[n].status = "Failed"
    /\ \E n \in 1..Len(contracts) : contracts[n].status = "Pending"

====
